---- MODULE Spec2Model ----
(***************************************************************************)
(* Model of the VanEditor component (src/app/page.tsx): one fabric canvas, *)
(* one base image, stickers loaded from SVG, four tone parameters.         *)
(* The surface is the fabric canvas' object stack: a sequence of elements, *)
(* index 1 is the back.  Every handler runs to completion (one action).    *)
(***************************************************************************)
EXTENDS Integers, Sequences, FiniteSets, TLC

\* ---- bounds ----
MaxStickers == 2        \* addSticker calls per behaviour
MaxToneEvents == 1      \* slider changes per behaviour
ToneMax == 1            \* slider positions are -ToneMax..ToneMax (hue 0..ToneMax)
MaxExports == 1         \* downloadImage calls per behaviour
DimSpread == 1          \* image sides sampled this far around each size class

\* ---- program constants ----
CanvasWidth == 1200
CanvasHeight == 960

MaxSize == 2048         \* processImage's default maxSize
BASE_IMAGE == "/stickers/base.png"
DataUrl == "data:image/png"   \* what canvas.toDataURL("image/png") returns

Base == 0               \* identity of the image created by initCanvas
NoObj == -1             \* getActiveObject() returning null/undefined
NoBackgroundObject == -2 \* canvas.backgroundObject: declared, never assigned
ActiveSel == -3         \* the fabric.ActiveSelection wrapping several objects
StickerIds == 1..MaxStickers

ToneTypes == {"brightness", "contrast", "saturation", "hue"}
ToneValues(type) == IF type = "hue" THEN 0..ToneMax ELSE (0 - ToneMax)..ToneMax
Keys == {"Delete", "Backspace", "Other"}
\* what fabric.loadSVGFromURL hands to the callback: several shapes (grouped),
\* a single <image> element (returned as is by groupSVGElements), or null
\* objects when the document could not be loaded (an empty group)
LoadResults == {"shapes", "image", "error"}
\* the two events of the <img> element of processImage
ImageOutcomes == {"load", "error"}

VARIABLES
    mounted,          \* the component is mounted (key listener registered)
    initPc,           \* initCanvas: "await" | "loading" | "done" | "failed"
    canvasRef,        \* canvasRef.current: "null" | "canvas"
    disposed,         \* canvas.dispose() has been called
    objects,          \* canvas._objects, back to front
    active,           \* canvas._activeObject: an element id or NoObj
    selectedSticker,  \* React state
    filters,          \* React state: the four tone parameters
    pending,          \* sticker loads in flight (ids of their requests)
    calls,            \* addSticker calls so far
    dropped,          \* addSticker calls that returned at the handle guard
    toneEvents,       \* slider changes so far
    group,            \* members of the ActiveSelection (active = ActiveSel)
    listening,        \* the selection listeners are registered on the canvas
    image,            \* natural size of the base image file
    processed,        \* the processImage result the base load in flight uses
    exported          \* the downloads produced so far

vars == <<mounted, initPc, canvasRef, disposed, objects, active,
          selectedSticker, filters, pending, calls, dropped, toneEvents,
          group, listening, image, processed, exported>>

\* ---- helpers on the object stack ----
Ids(objs) == {objs[i].id : i \in 1..Len(objs)}
IndexOf(objs, id) == CHOOSE i \in 1..Len(objs) : objs[i].id = id
Elem(objs, id) == objs[IndexOf(objs, id)]
Overlays(objs) == SelectSeq(objs, LAMBDA o : o.id # Base)

\* mutant: removes the front-most object, whatever was asked for
RemoveObj_Top(objs, id) == SubSeq(objs, 1, Len(objs) - 1)

\* fabric Collection.remove: splice the object out when it is in the stack
RemoveObj(objs, id) == SelectSeq(objs, LAMBDA o : o.id # id)

\* fabric StaticCanvas.sendToBack: removeFromArray, then unshift
SendToBack(objs, id) ==
    IF id \in Ids(objs)
    THEN <<Elem(objs, id)>> \o RemoveObj(objs, id)
    ELSE objs

\* getObjects().find((obj) => obj instanceof fabric.Image)
FindImage(objs) ==
    IF \E i \in 1..Len(objs) : objs[i].cls = "Image"
    THEN objs[CHOOSE i \in 1..Len(objs) :
                 /\ objs[i].cls = "Image"
                 /\ \A j \in 1..(i - 1) : objs[j].cls # "Image"].id
    ELSE NoObj

\* the four filters pushed by the filters effect
FilterChain(f) ==
    << [type |-> "Brightness",  value |-> f.brightness],
       [type |-> "Contrast",    value |-> f.contrast],
       [type |-> "Saturation",  value |-> f.saturation],
       [type |-> "HueRotation", value |-> f.hue] >>

ZeroFilters == [brightness |-> 0, contrast |-> 0, saturation |-> 0, hue |-> 0]

\* the image built by the fromURL callback of initCanvas
BaseImage ==
    [id |-> Base, cls |-> "Image", src |-> "base",
     selectable |-> FALSE, evented |-> FALSE,
     left |-> CanvasWidth \div 2, top |-> CanvasHeight \div 2,
     filters |-> <<>>]

\* the object built by the loadSVGFromURL callback of addSticker
StickerObject(id, result) ==
    [id |-> id,
     cls |-> IF result = "image" THEN "Image" ELSE "Group",
     src |-> IF result = "error" THEN "none" ELSE "svg",
     selectable |-> TRUE, evented |-> TRUE,
     left |-> CanvasWidth \div 2, top |-> CanvasHeight \div 2,
     filters |-> <<>>]

\* ---- processImage, lines 80-124 ----
Max(a, b) == IF a >= b THEN a ELSE b

\* (maxSize / den) * num is a double; assigning it to canvas.width/height
\* truncates it.  A quotient that is not whole truncates to its floor; a
\* whole one may have been rounded just below itself before truncation.
Truncated(maxSize, num, den) ==
    LET exact == (maxSize * num) \div den
    IN  IF (maxSize * num) % den = 0 /\ exact > 0
        THEN {exact, exact - 1}
        ELSE {exact}

\* mutant: always scales by the width
ScaledSizes_ByWidth(img, maxSize) ==
    IF Max(img.width, img.height) > maxSize
    THEN {[width |-> maxSize, height |-> h] :
             h \in Truncated(maxSize, img.height, img.width)}
    ELSE {[width |-> img.width, height |-> img.height]}

\* lines 93-109: the size of the off-screen canvas
ScaledSizes(img, maxSize) ==
    IF Max(img.width, img.height) > maxSize
    THEN IF img.height >= img.width
         THEN {[width |-> w, height |-> maxSize] :
                  w \in Truncated(maxSize, img.width, img.height)}
         ELSE {[width |-> maxSize, height |-> h] :
                  h \in Truncated(maxSize, img.height, img.width)}
    ELSE {[width |-> img.width, height |-> img.height]}

\* mutant: the error handler resolves with nothing usable
ProcessImage_NoFallback(imageUrl, img, maxSize, outcome) ==
    IF outcome = "load"
    THEN {[outcome |-> outcome, url |-> DataUrl,
           width |-> size.width, height |-> size.height] :
             size \in ScaledSizes(img, maxSize)}
    ELSE {[outcome |-> outcome, url |-> "", width |-> 0, height |-> 0]}

\* the values the promise can resolve with: a data URL of the redrawn image
\* (onload) or the url it was given (onerror)
ProcessImage(imageUrl, img, maxSize, outcome) ==
    IF outcome = "load"
    THEN {[outcome |-> outcome, url |-> DataUrl,
           width |-> size.width, height |-> size.height] :
             size \in ScaledSizes(img, maxSize)}
    ELSE {[outcome |-> outcome, url |-> imageUrl, width |-> 0, height |-> 0]}

NotResolved == [outcome |-> "none", url |-> "", width |-> 0, height |-> 0]
DefaultImage == [width |-> 3000, height |-> 2000]

InitState(img) ==
    /\ mounted = TRUE
    /\ initPc = "await"
    /\ canvasRef = "null"
    /\ disposed = FALSE
    /\ objects = <<>>
    /\ active = NoObj
    /\ selectedSticker = FALSE
    /\ filters = ZeroFilters
    /\ pending = {}
    /\ calls = 0
    /\ dropped = 0
    /\ toneEvents = 0
    /\ group = {}
    /\ listening = FALSE
    /\ image = img
    /\ processed = NotResolved
    /\ exported = <<>>

Init == InitState(DefaultImage)

\* processImage resolved: initCanvas starts the base load, registers the
\* selection listeners and publishes the handle
Publish ==
    /\ initPc = "await"
    /\ \E outcome \in ImageOutcomes :
          processed' \in ProcessImage(BASE_IMAGE, image, MaxSize, outcome)
    /\ initPc' = "loading"
    /\ listening' = TRUE
    /\ canvasRef' = "canvas"
    /\ UNCHANGED <<mounted, disposed, objects, active, selectedSticker,
                   filters, pending, calls, dropped, toneEvents, group,
                   image, exported>>

\* mutant: the image is added and left where add put it
BaseLoaded_NoSendToBack ==
    /\ initPc = "loading"
    /\ initPc' = "done"
    /\ objects' = Append(objects, BaseImage)
    /\ processed' = NotResolved
    /\ UNCHANGED <<mounted, canvasRef, disposed, active, selectedSticker,
                   filters, pending, calls, dropped, toneEvents>>
    /\ UNCHANGED <<group, listening, image, exported>>

\* fromURL callback: add the image, then send it to the back; the request
\* and the url it carried are gone
BaseLoaded ==
    /\ initPc = "loading"
    /\ initPc' = "done"
    /\ objects' = SendToBack(Append(objects, BaseImage), Base)
    /\ processed' = NotResolved
    /\ UNCHANGED <<mounted, canvasRef, disposed, active, selectedSticker,
                   filters, pending, calls, dropped, toneEvents>>
    /\ UNCHANGED <<group, listening, image, exported>>

\* the base image fails to load: the fromURL callback never runs
BaseFailed ==
    /\ initPc = "loading"
    /\ initPc' = "failed"
    /\ processed' = NotResolved
    /\ UNCHANGED <<mounted, canvasRef, disposed, objects, active,
                   selectedSticker, filters, pending, calls, dropped,
                   toneEvents>>
    /\ UNCHANGED <<group, listening, image, exported>>

\* mutant: a request made while another is in flight is ignored
StartLoad_Dedupe(inFlight, request) ==
    IF inFlight = {} THEN {request} ELSE inFlight

\* fabric.loadSVGFromURL: every call starts a request of its own
StartLoad(inFlight, request) == inFlight \cup {request}

\* mutant: the load is started whether or not the handle is published
AddSticker_NoGuard ==
    /\ mounted
    /\ calls < MaxStickers
    /\ calls' = calls + 1
    /\ dropped' = IF canvasRef = "null" THEN dropped + 1 ELSE dropped
    /\ pending' = StartLoad(pending, calls + 1)
    /\ UNCHANGED <<mounted, initPc, canvasRef, disposed, objects, active,
                   selectedSticker, filters, toneEvents>>
    /\ UNCHANGED <<group, listening, image, processed, exported>>

\* addSticker, lines 241-244: return without a handle, else start the load
AddSticker ==
    /\ mounted
    /\ calls < MaxStickers
    /\ calls' = calls + 1
    /\ IF canvasRef = "null"
       THEN dropped' = dropped + 1 /\ pending' = pending
       ELSE dropped' = dropped /\ pending' = StartLoad(pending, calls + 1)
    /\ UNCHANGED <<mounted, initPc, canvasRef, disposed, objects, active,
                   selectedSticker, filters, toneEvents>>
    /\ UNCHANGED <<group, listening, image, processed, exported>>

\* React drops a state update of a component that is no longer mounted
SetSelectedSticker(value) ==
    selectedSticker' = IF mounted THEN value ELSE selectedSticker

\* mutant: the placed object is added but not made the active object
StickerLoaded_NoActivate(id, result) ==
    /\ id \in pending
    /\ pending' = pending \ {id}
    /\ IF canvasRef = "canvas"
       THEN objects' = Append(objects, StickerObject(id, result))
       ELSE objects' = objects
    /\ UNCHANGED <<mounted, initPc, canvasRef, disposed, active,
                   selectedSticker, filters, calls, dropped, toneEvents>>
    /\ UNCHANGED <<group, listening, image, processed, exported>>

\* loadSVGFromURL callback, lines 244-276: no branch on the load result;
\* add and setActiveObject go through canvasRef.current?.
StickerLoaded(id, result) ==
    /\ id \in pending
    /\ pending' = pending \ {id}
    /\ IF canvasRef = "canvas"
       THEN /\ objects' = Append(objects, StickerObject(id, result))
            /\ active' = id
            /\ group' = {}
       ELSE UNCHANGED <<objects, active, group>>
    /\ SetSelectedSticker(TRUE)
    /\ UNCHANGED <<mounted, initPc, canvasRef, disposed, filters, calls,
                   dropped, toneEvents>>
    /\ UNCHANGED <<listening, image, processed, exported>>

\* mutant: every object can be picked
Selectable_Any(o) == TRUE

\* fabric hit-testing: only visible, evented, selectable objects with a
\* non-degenerate box can be picked with the pointer
Selectable(o) == o.selectable /\ o.evented /\ o.src # "none"

\* the handlers registered at lines 171-173 are the only path from a
\* selection event of the canvas to the React state
OnSelectionEvent(value) ==
    IF listening THEN SetSelectedSticker(value) ELSE UNCHANGED selectedSticker

\* the user clicks an object: selection:created / selection:updated
UserSelect(id) ==
    /\ mounted /\ canvasRef = "canvas"
    /\ id \in Ids(objects)
    /\ Selectable(Elem(objects, id))
    /\ id # active /\ id \notin group
    /\ active' = id
    /\ group' = {}
    /\ OnSelectionEvent(TRUE)
    /\ UNCHANGED <<mounted, initPc, canvasRef, disposed, objects, filters,
                   pending, calls, dropped, toneEvents>>
    /\ UNCHANGED <<listening, image, processed, exported>>

\* the user shift-clicks another object: fabric wraps the active object and
\* the target in an ActiveSelection, or extends the one that is active
UserShiftSelect(id) ==
    /\ mounted /\ canvasRef = "canvas"
    /\ id \in Ids(objects)
    /\ Selectable(Elem(objects, id))
    /\ active # NoObj /\ id # active /\ id \notin group
    /\ group' = IF active = ActiveSel THEN group \cup {id} ELSE {active, id}
    /\ active' = ActiveSel
    /\ OnSelectionEvent(TRUE)
    /\ UNCHANGED <<mounted, initPc, canvasRef, disposed, objects, filters,
                   pending, calls, dropped, toneEvents>>
    /\ UNCHANGED <<listening, image, processed, exported>>

\* the user clicks outside every selectable object: selection:cleared
UserDeselect ==
    /\ mounted /\ canvasRef = "canvas"
    /\ active # NoObj
    /\ active' = NoObj
    /\ group' = {}
    /\ OnSelectionEvent(FALSE)
    /\ UNCHANGED <<mounted, initPc, canvasRef, disposed, objects, filters,
                   pending, calls, dropped, toneEvents>>
    /\ UNCHANGED <<listening, image, processed, exported>>

\* the condition of lines 189-192 and 318
DeleteGuard(activeObject, backgroundObject) ==
    activeObject # NoObj /\ activeObject # backgroundObject

\* mutant: with nothing active the front-most object is removed
RemoveActive_PopWhenEmpty ==
    IF canvasRef = "canvas"
    THEN /\ objects' = IF active # NoObj
                       THEN RemoveObj(objects, active)
                       ELSE SubSeq(objects, 1, Len(objects) - 1)
         /\ active' = NoObj
         /\ selectedSticker' = FALSE
    ELSE UNCHANGED <<objects, active, selectedSticker>>

\* lines 182-196 and 313-322: remove the active object; fabric discards the
\* active object it removes and fires selection:cleared
RemoveActive ==
    IF canvasRef = "canvas" /\ DeleteGuard(active, NoBackgroundObject)
    THEN /\ objects' = RemoveObj(objects, active)
         /\ active' = IF active \in Ids(objects) THEN NoObj ELSE active
         /\ SetSelectedSticker(FALSE)
    ELSE UNCHANGED <<objects, active, selectedSticker>>

\* mutant: every key deletes
KeyDown_AnyKey(key) ==
    /\ IF mounted
       THEN RemoveActive
       ELSE UNCHANGED <<objects, active, selectedSticker>>
    /\ UNCHANGED <<mounted, initPc, canvasRef, disposed, filters, pending,
                   calls, dropped, toneEvents>>
    /\ UNCHANGED <<group, listening, image, processed, exported>>

\* a keydown event on window: handleKeyDown runs while it is registered,
\* that is from the mount effect until its cleanup
KeyDown(key) ==
    /\ IF mounted /\ key \in {"Delete", "Backspace"}
       THEN RemoveActive
       ELSE UNCHANGED <<objects, active, selectedSticker>>
    /\ UNCHANGED <<mounted, initPc, canvasRef, disposed, filters, pending,
                   calls, dropped, toneEvents>>
    /\ UNCHANGED <<group, listening, image, processed, exported>>

\* deleteSelectedSticker: its buttons are rendered only when selectedSticker
DeleteSelectedSticker ==
    /\ mounted /\ selectedSticker
    /\ RemoveActive
    /\ UNCHANGED <<mounted, initPc, canvasRef, disposed, filters, pending,
                   calls, dropped, toneEvents>>
    /\ UNCHANGED <<group, listening, image, processed, exported>>

\* lines 333-342: the stack after the two sendToBack calls
StackAfterSendToBack(objs, activeObject) ==
    LET lowered ==
            IF activeObject = ActiveSel
            THEN SelectSeq(objs, LAMBDA o : o.id \in group)
                    \o SelectSeq(objs, LAMBDA o : o.id \notin group)
            ELSE SendToBack(objs, activeObject)
        bgImage == FindImage(lowered)
    IN  IF bgImage # NoObj THEN SendToBack(lowered, bgImage) ELSE lowered

\* sendStickerToBack: its button is rendered only when selectedSticker
SendStickerToBack ==
    /\ mounted /\ selectedSticker
    /\ IF canvasRef = "canvas" /\ DeleteGuard(active, NoBackgroundObject)
       THEN objects' = StackAfterSendToBack(objects, active)
       ELSE objects' = objects
    /\ UNCHANGED <<mounted, initPc, canvasRef, disposed, active,
                   selectedSticker, filters, pending, calls, dropped,
                   toneEvents>>
    /\ UNCHANGED <<group, listening, image, processed, exported>>

\* the effect on [filters], lines 215-238
ApplyFilters(objs, f) ==
    LET bgImage == FindImage(objs)
    IN  IF canvasRef = "null" \/ bgImage = NoObj
        THEN objs
        ELSE [objs EXCEPT ![IndexOf(objs, bgImage)].filters = FilterChain(f)]

\* handleFilterChange: setFilters, then the effect runs with the new state
HandleFilterChange(type, value) ==
    /\ mounted
    /\ toneEvents < MaxToneEvents
    /\ toneEvents' = toneEvents + 1
    /\ filters' = [filters EXCEPT ![type] = value]
    /\ objects' = ApplyFilters(objects, filters')
    /\ UNCHANGED <<mounted, initPc, canvasRef, disposed, active,
                   selectedSticker, pending, calls, dropped>>
    /\ UNCHANGED <<group, listening, image, processed, exported>>

\* resetFilters: a fresh all-zero state, then the effect
ResetFilters ==
    /\ mounted
    /\ filters' = ZeroFilters
    /\ objects' = ApplyFilters(objects, filters')
    /\ UNCHANGED <<mounted, initPc, canvasRef, disposed, active,
                   selectedSticker, pending, calls, dropped, toneEvents>>
    /\ UNCHANGED <<group, listening, image, processed, exported>>

\* mutant: the canvas is disposed and the handle is kept
CleanupBody_KeepHandle(s) ==
    IF s.canvasRef = "canvas"
    THEN [canvasRef |-> "canvas", objects |-> <<>>,
          disposeCalls |-> s.disposeCalls + 1]
    ELSE s

\* lines 205-208 as a function of the handle and the canvas it refers to:
\* dispose the canvas behind the handle, then clear the handle
CleanupBody(s) ==
    IF s.canvasRef = "canvas"
    THEN [canvasRef |-> "null", objects |-> <<>>,
          disposeCalls |-> s.disposeCalls + 1]
    ELSE s

Surface ==
    [canvasRef |-> canvasRef, objects |-> objects,
     disposeCalls |-> IF disposed THEN 1 ELSE 0]

\* cleanup of the mount effect, lines 204-211
Unmount ==
    /\ mounted
    /\ mounted' = FALSE
    /\ LET after == CleanupBody(Surface)
       IN  /\ canvasRef' = after.canvasRef
           /\ objects' = after.objects
           /\ disposed' = (after.disposeCalls > 0)
    /\ UNCHANGED <<initPc, active, selectedSticker, filters, pending, calls,
                   dropped, toneEvents>>
    /\ UNCHANGED <<group, listening, image, processed, exported>>

\* canvas.backgroundImage: set by setBackgroundImage at line 162
BackgroundImage == IF initPc = "done" THEN Base ELSE NoObj

\* fabric applyFilters: neutral filters are skipped when the image is drawn
Rendered(chain) == SelectSeq(chain, LAMBDA f : f.value # 0)

\* canvas.toDataURL: the background image, then the stack back to front,
\* each object where it is and an image with its filters applied
ToDataURL(objs, background) ==
    [format |-> "png",
     background |-> background,
     layers |-> [i \in 1..Len(objs) |->
                    [id |-> objs[i].id, left |-> objs[i].left,
                     top |-> objs[i].top,
                     filters |-> Rendered(objs[i].filters)]]]

\* mutant: the selection is dropped before the picture is taken
DownloadImage_Deselects ==
    /\ mounted
    /\ Len(exported) < MaxExports
    /\ exported' = IF canvasRef = "canvas"
                   THEN Append(exported, ToDataURL(objects, BackgroundImage))
                   ELSE exported
    /\ active' = NoObj
    /\ UNCHANGED <<mounted, initPc, canvasRef, disposed, objects,
                   selectedSticker, filters, pending, calls, dropped,
                   toneEvents, group, listening, image, processed>>

\* downloadImage, lines 295-309: its button is always rendered
DownloadImage ==
    /\ mounted
    /\ Len(exported) < MaxExports
    /\ exported' = IF canvasRef = "canvas"
                   THEN Append(exported, ToDataURL(objects, BackgroundImage))
                   ELSE exported
    /\ UNCHANGED <<mounted, initPc, canvasRef, disposed, objects, active,
                   selectedSticker, filters, pending, calls, dropped,
                   toneEvents, group, listening, image, processed>>

Next ==
    \/ Publish
    \/ BaseLoaded
    \/ BaseFailed
    \/ AddSticker
    \/ \E id \in StickerIds, result \in LoadResults : StickerLoaded(id, result)
    \/ \E id \in StickerIds : UserSelect(id)
    \/ \E id \in StickerIds : UserShiftSelect(id)
    \/ UserDeselect
    \/ \E key \in Keys : KeyDown(key)
    \/ DeleteSelectedSticker
    \/ SendStickerToBack
    \/ \E type \in ToneTypes : \E value \in ToneValues(type) :
          HandleFilterChange(type, value)
    \/ ResetFilters
    \/ Unmount

Spec == Init /\ [][Next]_vars

\* ---- state descriptions used by the properties ----
BaseOnSurface == Base \in Ids(objects)
OverlayIds == Ids(objects) \ {Base}
AboveBase(objs) ==
    \A i \in 1..Len(objs) :
        objs[i].id # Base => i > IndexOf(objs, Base)

\* C1: whenever the Base Layer is on the surface, every Overlay Element has
\* a z-order index strictly greater than the Base Layer's.
C1_OverlaysAboveBase == BaseOnSurface => AboveBase(objects)

\* ---- placements only: initialisation, addSticker and load completions ----
NextPlace ==
    \/ Publish
    \/ BaseLoaded
    \/ BaseFailed
    \/ AddSticker
    \/ \E id \in StickerIds, result \in LoadResults : StickerLoaded(id, result)

SpecPlace == Init /\ [][NextPlace]_vars

TopId(objs) == objs[Len(objs)].id

\* a placement completes: the load of request id leaves the pending set
Placed(id) == id \in pending /\ id \notin pending'

PlacedOnTopAndActive ==
    \A id \in StickerIds :
        Placed(id) => /\ Len(objects') = Len(objects) + 1
                      /\ TopId(objects') = id
                      /\ active' = id
                      /\ selectedSticker'

\* C2 (as stated): after N addSticker calls exactly N Overlay Elements exist,
\* all strictly above the Base Layer, and the most recently placed one is
\* the active selection.
C2_AllCallsPlaced ==
    /\ [](pending = {} =>
            /\ Cardinality(OverlayIds) = calls
            /\ (BaseOnSurface => AboveBase(objects)))
    /\ [][PlacedOnTopAndActive]_vars

\* C2 (amended): after N addSticker calls issued while the surface handle is
\* published, once their loads have completed, exactly N Overlay Elements
\* exist, all strictly above the Base Layer, and each placement leaves the
\* element it placed on top and as the active selection.
C2_PublishedCallsPlaced ==
    /\ [](pending = {} =>
            /\ Cardinality(OverlayIds) = calls - dropped
            /\ (BaseOnSurface => AboveBase(objects)))
    /\ [][PlacedOnTopAndActive]_vars

C2_Witness ==
    /\ pending = {} /\ calls = MaxStickers /\ dropped = 0
    /\ BaseOnSurface
    /\ Cardinality(OverlayIds) = MaxStickers
    /\ active = TopId(objects) /\ active # Base

\* ---- delete ----
DeleteStep ==
    \/ DeleteSelectedSticker
    \/ \E key \in {"Delete", "Backspace"} : KeyDown(key)

\* the z-order: the identities of the stack, back to front
ZOrder(objs) == [i \in 1..Len(objs) |-> objs[i].id]

\* C3: deleting while an Overlay Element is the active selection reduces the
\* element count by exactly one, removes exactly that element and leaves the
\* selection empty (active object and selectedSticker).
C3_DeleteRemovesActive ==
    [][(DeleteStep /\ active \in OverlayIds) =>
          /\ Len(objects') = Len(objects) - 1
          /\ Ids(objects') = Ids(objects) \ {active}
          /\ \A id \in Ids(objects') : Elem(objects', id) = Elem(objects, id)
          /\ active' = NoObj
          /\ selectedSticker' = FALSE]_vars

C3_Witness ==
    /\ canvasRef = "canvas" /\ pending = {} /\ dropped = 0
    /\ calls = MaxStickers
    /\ Cardinality(OverlayIds) = MaxStickers - 1
    /\ active = NoObj /\ ~selectedSticker

\* C4: deleting when the selection is empty is a no-op: elements, z-order,
\* selection state and tone parameters are unchanged.
C4_DeleteNothingSelected ==
    [][(DeleteStep /\ active = NoObj) =>
          UNCHANGED <<objects, active, selectedSticker, filters>>]_vars

C4_Witness ==
    /\ mounted /\ canvasRef = "canvas"
    /\ active = NoObj /\ ~selectedSticker
    /\ OverlayIds # {}
    /\ BaseOnSurface

\* ---- send to back ----
\* C5: after sendStickerToBack with an Overlay Element selected, that element
\* is the lowest of the Overlay Elements, the Base Layer is below every
\* Overlay Element, the other overlays keep their relative order and the
\* selection is unchanged.
C5_SendToBackLowestOverlay ==
    [][(SendStickerToBack /\ active \in OverlayIds) =>
          /\ \A id \in OverlayIds \ {active} :
                IndexOf(objects', active) < IndexOf(objects', id)
          /\ (BaseOnSurface' => AboveBase(objects'))
          /\ RemoveObj(Overlays(objects'), active)
                = RemoveObj(Overlays(objects), active)
          /\ active' = active
          /\ selectedSticker' = selectedSticker]_vars

\* ---- the delete guard, applied to every surface the handlers could be
\* handed: the base image, with or without stickers of every kind, and any
\* object of the stack (the base image included) or none as active object
StackOf(results) ==
    <<BaseImage>> \o [i \in 1..Len(results) |-> StickerObject(i, results[i])]

InitGuard ==
    /\ mounted = TRUE
    /\ initPc = "done"
    /\ canvasRef = "canvas"
    /\ disposed = FALSE
    /\ \E n \in 0..MaxStickers : \E results \in [1..n -> LoadResults] :
          /\ objects = StackOf(results)
          /\ calls = n
    /\ active \in Ids(objects) \cup {NoObj}
    /\ selectedSticker = (active # NoObj)
    /\ filters = ZeroFilters
    /\ pending = {}
    /\ dropped = 0
    /\ toneEvents = 0
    /\ group = {}
    /\ listening = TRUE
    /\ image = DefaultImage
    /\ processed = NotResolved
    /\ exported = <<>>

NextGuard ==
    \/ \E key \in Keys : KeyDown(key)
    \/ DeleteSelectedSticker
    \/ SendStickerToBack
    \/ \E id \in StickerIds : UserSelect(id)
    \/ \E id \in StickerIds : UserShiftSelect(id)
    \/ UserDeselect

SpecGuard == InitGuard /\ [][NextGuard]_vars

C7_BaseStays ==
    /\ [](BaseOnSurface => active # Base)
    /\ [][(BaseOnSurface /\ ~BaseOnSurface') => (~disposed /\ disposed')]_vars
    /\ [][(BaseOnSurface /\ BaseOnSurface') =>
             ~Selectable(Elem(objects', Base))]_vars

C7_Witness ==
    /\ mounted /\ BaseOnSurface
    /\ calls = MaxStickers /\ pending = {} /\ dropped = 0
    /\ Cardinality(OverlayIds) < MaxStickers
    /\ toneEvents > 0

\* ---- tone ----
ToneStep ==
    \/ ResetFilters
    \/ \E type \in ToneTypes : \E value \in ToneValues(type) :
          HandleFilterChange(type, value)

\* C8: once a tone change has been processed the Base Layer's filter chain
\* is the four filters brightness, contrast, saturation, hue-rotation with
\* the current parameter values, whenever the change was made.
C8_BaseChainCurrent ==
    (toneEvents > 0 /\ BaseOnSurface /\ ~disposed) =>
        Elem(objects, Base).filters = FilterChain(filters)

\* C9: after resetFilters the Base Layer's filter chain is equivalent to the
\* chain it had right after initialisation (no visible filtering).
C9_ResetRestoresInitialChain ==
    [][(ResetFilters /\ BaseOnSurface) =>
          Rendered(Elem(objects', Base).filters)
             = Rendered(BaseImage.filters)]_vars

\* C10: a tone change or reset gives the filter chain to the Base Layer only:
\* the overlays with all their attributes, the z-order and the selection are
\* unchanged.
C10_ToneLeavesOverlays ==
    [][ToneStep =>
          /\ Overlays(objects') = Overlays(objects)
          /\ ZOrder(objects') = ZOrder(objects)
          /\ active' = active
          /\ selectedSticker' = selectedSticker]_vars

\* ---- teardown ----
\* C11: every surface that is created is disposed exactly once on teardown,
\* whenever the unmount happens relative to the base-image preprocessing:
\* once the component is unmounted its canvas has been disposed.
C11_DisposedOnTeardown == ~mounted => disposed

\* C12: a load completion that arrives after teardown is a no-op: it adds no
\* element, publishes no handle, registers no listener and changes no
\* selection state.
C12_LateCompletionsNoOp ==
    [][~mounted =>
          UNCHANGED <<objects, canvasRef, listening, active,
                      selectedSticker>>]_vars

\* C13: the teardown is idempotent and safe without a surface: run a second
\* time, or with a null handle, it leaves the state a single teardown leaves
\* (handle null, no further dispose call).
C13_DisposeIdempotent ==
    /\ CleanupBody(Surface).canvasRef = "null"
    /\ CleanupBody(CleanupBody(Surface)) = CleanupBody(Surface)
    /\ (canvasRef = "null" => CleanupBody(Surface) = Surface)
    /\ CleanupBody(Surface).disposeCalls <= 1

C13_Witness ==
    /\ ~mounted /\ disposed /\ canvasRef = "null"
    /\ initPc = "done" /\ calls > dropped

\* ---- load failures ----
\* C14: when the vector-graphic load of a placement fails no element is
\* added and the selection (active object and selectedSticker) is unchanged.
C14_FailedLoadAddsNothing ==
    [][(\E id \in StickerIds : StickerLoaded(id, "error")) =>
          UNCHANGED <<objects, active, selectedSticker>>]_vars

\* C15: when the base image fails to load in processImage the promise
\* resolves with the url it was given, and initCanvas goes on: the selection
\* listeners are registered and the handle is published.
C15_FallbackContinues ==
    [][(Publish /\ processed'.outcome = "error") =>
          /\ processed'.url = BASE_IMAGE
          /\ listening'
          /\ canvasRef' = "canvas"
          /\ initPc' = "loading"]_vars

C15_Witness ==
    /\ processed.outcome = "error" /\ processed.url = BASE_IMAGE
    /\ mounted /\ listening /\ canvasRef = "canvas"
    /\ OverlayIds # {}

\* ---- initialisation ----
\* C16: when initialisation completes exactly one Base Layer is on the
\* surface, centred at (600, 480), non-selectable, non-evented and lowest in
\* z-order, also when stickers were placed before the base image loaded.
C16_BaseLowestAfterInit ==
    [][BaseLoaded =>
          /\ Len(SelectSeq(objects', LAMBDA o : o.id = Base)) = 1
          /\ objects'[1].id = Base
          /\ objects'[1].left = 600 /\ objects'[1].top = 480
          /\ ~objects'[1].selectable /\ ~objects'[1].evented
          /\ Overlays(objects') = Overlays(objects)]_vars

C16_Witness ==
    /\ initPc = "done" /\ ~disposed
    /\ objects[1].id = Base
    /\ Cardinality(OverlayIds) = MaxStickers
    /\ toneEvents = 0 /\ active = TopId(objects)

\* ---- processImage on images of every size class ----
Dims ==
    UNION {{1 + k, MaxSize - k, MaxSize + 1 + k, 3000 + k, 2 * MaxSize + k} :
              k \in 0..DimSpread}

InitImage ==
    \E w \in Dims, h \in Dims : InitState([width |-> w, height |-> h])

NextImage ==
    \/ Publish
    \/ BaseLoaded
    \/ BaseFailed

SpecImage == InitImage /\ [][NextImage]_vars

Min(a, b) == IF a <= b THEN a ELSE b
Abs(x) == IF x >= 0 THEN x ELSE 0 - x

\* C17: an image whose longer side exceeds the bound comes out with that
\* side equal to the bound and the other within one pixel of
\* bound*shorter/longer; an image within the bound keeps its dimensions.
C17_ScaledToBound ==
    processed.outcome = "load" =>
        LET longIn == Max(image.width, image.height)
            shortIn == Min(image.width, image.height)
            shortOut == IF image.height >= image.width
                        THEN processed.width ELSE processed.height
            longOut == IF image.height >= image.width
                       THEN processed.height ELSE processed.width
        IN  IF longIn > MaxSize
            THEN /\ longOut = MaxSize
                 /\ Abs(shortOut * longIn - MaxSize * shortIn) <= longIn
            ELSE /\ processed.width = image.width
                 /\ processed.height = image.height

C17_Witness ==
    /\ processed.outcome = "load"
    /\ image.height > image.width /\ image.height > MaxSize
    /\ image.width > 1
    /\ processed.height = MaxSize /\ processed.width < MaxSize

\* ---- selection state ----
\* C18: between handlers the selectedSticker flag is true exactly when the
\* live surface has an active selection of Overlay Elements; it is false
\* initially.
C18_FlagMirrorsSelection ==
    mounted =>
        (selectedSticker <=>
            /\ canvasRef = "canvas"
            /\ (active \in OverlayIds \/ active = ActiveSel))

\* ---- concurrent placements ----
\* C19: placements in flight together complete independently: each
\* completion adds exactly its own element on top of the overlays, leaves
\* the other request in flight and makes its element the active selection;
\* when all have completed no request is lost or merged.
C19_IndependentCompletions ==
    /\ [][\A id \in StickerIds :
             Placed(id) =>
                /\ ZOrder(Overlays(objects'))
                      = Append(ZOrder(Overlays(objects)), id)
                /\ pending' = pending \ {id}
                /\ active' = id]_vars
    /\ [](pending = {} => Cardinality(OverlayIds) = calls - dropped)
    /\ [][AddSticker /\ canvasRef = "canvas" =>
             Cardinality(pending') = Cardinality(pending) + 1]_vars

C19_Witness ==
    /\ pending = {} /\ dropped = 0 /\ calls = MaxStickers
    /\ ZOrder(Overlays(objects)) = <<2, 1>>
    /\ active = 1 /\ selectedSticker

\* ---- keys ----
\* C20: a keydown with a key other than Delete and Backspace, a keydown
\* without a surface handle and a keydown after teardown leave elements,
\* z-order, selection and tone parameters unchanged.
C20_OtherKeysNoOp ==
    /\ [][KeyDown("Other") =>
             UNCHANGED <<objects, active, group, selectedSticker,
                         filters>>]_vars
    /\ [][((\E key \in Keys : KeyDown(key))
             /\ (canvasRef = "null" \/ ~mounted)) =>
             UNCHANGED <<objects, active, group, selectedSticker,
                         filters>>]_vars

C20_Witness ==
    /\ mounted /\ canvasRef = "canvas"
    /\ active \in OverlayIds /\ selectedSticker
    /\ Cardinality(OverlayIds) = MaxStickers
    /\ BaseOnSurface /\ toneEvents > 0

\* ---- export ----
NextExport ==
    \/ Publish
    \/ BaseLoaded
    \/ AddSticker
    \/ \E id \in StickerIds, result \in LoadResults : StickerLoaded(id, result)
    \/ \E type \in ToneTypes : \E value \in ToneValues(type) :
          HandleFilterChange(type, value)
    \/ DownloadImage

SpecExport == Init /\ [][NextExport]_vars

\* C21: downloadImage serialises the surface as it is (the stack in z-order,
\* the Base Layer with its applied filter chain) and changes nothing:
\* elements, z-order, selection and tone parameters stay; without a handle
\* it produces nothing.
C21_ExportReadsOnly ==
    [][DownloadImage =>
          /\ UNCHANGED <<objects, active, group, selectedSticker, filters>>
          /\ IF canvasRef = "canvas"
             THEN /\ Len(exported') = Len(exported) + 1
                  /\ LET out == exported'[Len(exported')].layers
                     IN  /\ Len(out) = Len(objects)
                         /\ \A i \in 1..Len(objects) :
                               /\ out[i].id = objects[i].id
                               /\ out[i].filters
                                     = Rendered(objects[i].filters)
             ELSE exported' = exported]_vars

C21_Witness ==
    /\ Len(exported) = 1
    /\ Len(exported[1].layers) = MaxStickers + 1
    /\ \E i \in 1..Len(exported[1].layers) :
          /\ exported[1].layers[i].id = Base
          /\ exported[1].layers[i].filters # <<>>
    /\ active \in OverlayIds /\ selectedSticker

\* ---- placement without a handle ----
\* C22: an addSticker call made while no handle is published starts no load
\* and its element never appears, also after the handle is published: the
\* calls before publication are the first `dropped` ones.
C22_NoHandleNoPlacement ==
    /\ [][(AddSticker /\ canvasRef = "null") =>
             UNCHANGED <<pending, objects, active, group,
                         selectedSticker>>]_vars
    /\ [](\A id \in 1..dropped :
             /\ id \notin pending
             /\ id \notin Ids(objects)
             /\ id # active
             /\ id \notin group)

C22_Witness ==
    /\ dropped > 0 /\ calls = MaxStickers /\ pending = {}
    /\ canvasRef = "canvas" /\ initPc = "done"
    /\ OverlayIds = (dropped + 1)..calls
    /\ OverlayIds # {}
====
